---- MODULE Spec2Model ----
(***************************************************************************)
(* Verification model of ucalc: the rational kernel (src/rational.rs), the *)
(* exact/inexact value (src/value.rs), the unit value (src/uval.rs) and    *)
(* the folding parser (src/main.rs).                                       *)
(*                                                                         *)
(* Machine integers are modelled at a reduced width: an iN/uN pair of      *)
(* IntBits bits stands for i32/u32.  Every definition below computes in    *)
(* two's complement at that width exactly as the Rust code does at 32.     *)
(***************************************************************************)
EXTENDS Integers, Sequences, FiniteSets, TLC

VARIABLES op, args, out, overflow_checks

vars == <<op, args, out, overflow_checks>>

(***************************************************************************)
(* Bounds                                                                  *)
(***************************************************************************)
\* width in bits of the machine integer standing for i32 / u32
IntBits == 5
\* number of base dimensions of a Unit
NumDims == 1
\* largest magnitude of an exponent of a Unit
MaxUnitExp == 1
\* largest number of pieces of an input text
MaxLen == 3

(***************************************************************************)
(* Machine integers                                                        *)
(***************************************************************************)
RECURSIVE Pow2(_)
Pow2(k) == IF k = 0 THEN 1 ELSE 2 * Pow2(k - 1)

\* i32::min_value(), i32::max_value()
MIN_NEG == -Pow2(IntBits - 1)
MAX_POS == Pow2(IntBits - 1) - 1
Modulus == Pow2(IntBits)

I32 == MIN_NEG .. MAX_POS
U32 == 0 .. (Modulus - 1)

\* `x as u32` and `x as i32` (two's complement reinterpretation)
AsU32(x) == x % Modulus
AsI32(x) == IF (x % Modulus) > MAX_POS THEN (x % Modulus) - Modulus ELSE x % Modulus

Abs(x) == IF x < 0 THEN -x ELSE x
Signum(x) == IF x > 0 THEN 1 ELSE IF x < 0 THEN -1 ELSE 0

\* Rust integer division truncates toward zero
TruncDiv(a, b) ==
    IF (a < 0) = (b < 0) THEN Abs(a) \div Abs(b) ELSE -(Abs(a) \div Abs(b))

\* u32 / i32 ::trailing_zeros on the bit pattern of x (x # 0)
RECURSIVE TrailingZeros(_)
TrailingZeros(x) ==
    IF AsU32(x) = 0 THEN IntBits
    ELSE IF AsU32(x) % 2 = 1 THEN 0 ELSE 1 + TrailingZeros(AsU32(x) \div 2)

\* bitwise or of two bit patterns
RECURSIVE BitOrU(_, _)
BitOrU(a, b) ==
    IF a = 0 THEN b
    ELSE IF b = 0 THEN a
    ELSE (IF (a % 2 = 1) \/ (b % 2 = 1) THEN 1 ELSE 0) + 2 * BitOrU(a \div 2, b \div 2)

BitOr(m, n) == AsI32(BitOrU(AsU32(m), AsU32(n)))

\* greatest common divisor of two naturals (Euclid)
RECURSIVE MathGCD(_, _)
MathGCD(x, y) == IF y = 0 THEN x ELSE MathGCD(y, x % y)

\* Option / Result values
Some(v) == [tag |-> "Some", val |-> v]
None == [tag |-> "None"]
Ok(v) == [tag |-> "Ok", val |-> v]
Err(e) == [tag |-> "Err", err |-> e]
\* an abort of the thread (panic!, arithmetic overflow in a checked build)
Panic == [tag |-> "Panic"]

IsOk(r) == r.tag = "Ok"
IsErr(r, e) == r.tag = "Err" /\ r.err = e

\* i32::checked_mul, u32::checked_mul
checked_mul_i32(a, b) == IF a * b \in I32 THEN Some(a * b) ELSE None
checked_mul_u32(a, b) == IF a * b \in U32 THEN Some(a * b) ELSE None

(***************************************************************************)
(* src/rational.rs                                                         *)
(***************************************************************************)
Rat(n, d) == [num |-> n, den |-> d]

\* while m != 0 { m >>= m.trailing_zeros(); if n > m { swap } m -= n }
RECURSIVE gcd_loop(_, _)
gcd_loop(m, n) ==
    IF m = 0 THEN n
    ELSE LET m1 == m \div Pow2(TrailingZeros(m))
             n2 == IF n > m1 THEN m1 ELSE n
             m2 == IF n > m1 THEN n ELSE m1
         IN  gcd_loop(m2 - n2, n2)

gcd(m, n) ==
    IF m = 0 \/ n = 0 THEN BitOr(m, n)
    ELSE LET shift == TrailingZeros(BitOr(m, n))
         IN  IF m = MIN_NEG \/ n = MIN_NEG THEN AsI32(Pow2(shift))
             ELSE LET n_sign == Signum(n)
                      ma == Abs(m)
                      na == Abs(n) \div Pow2(TrailingZeros(Abs(n)))
                  IN  (gcd_loop(ma, na) * Pow2(shift)) * n_sign

\* CheckableOverflow<Rational> for Rational
check_overflow(r) ==
    IF r.num > MIN_NEG /\ r.den > 0 /\ r.den <= MAX_POS THEN Ok(r) ELSE Err("OverflowError")

\* CheckableOverflow<i32> for i32
check_overflow_i32(i) == IF i > MIN_NEG THEN Ok(i) ELSE Err("OverflowError")

Rational_neg(r) == Rat(-r.num, r.den)

from_integer(i) ==
    IF IsOk(check_overflow_i32(i)) THEN Ok(Rat(i, 1)) ELSE Err("OverflowError")

\* mutation: the fraction is not divided by the gcd
Rational_new_unreduced(num, den) ==
    IF den = 0 THEN Panic
    ELSE check_overflow(Rat(num * Signum(den), AsU32(Abs(den))))

Rational_new(num, den) ==
    IF den = 0 THEN Panic
    ELSE LET g == gcd(num, den)
         IN  check_overflow(Rat(TruncDiv(num, g), AsU32(TruncDiv(den, g))))

recip(r) ==
    IF r.num > 0 THEN Ok(Rat(AsI32(r.den), AsU32(r.num)))
    ELSE IF r.num # 0 THEN Ok(Rat(-AsI32(r.den), AsU32(-r.num)))
    ELSE Err("OverflowError")

is_integer(r) == r.den = 1
is_negative(r) == r.num < 0

\* fn checked_pow(mut base: i32, mut exp: u32): the loop `while exp > 1`,
\* then the final multiplication when exp == 1
\* mutation: the multiplications wrap around instead of being checked
RECURSIVE checked_pow_loop_wrapping(_, _, _)
checked_pow_loop_wrapping(acc, base, exp) ==
    IF exp > 1 THEN
        checked_pow_loop_wrapping(IF exp % 2 = 1 THEN AsI32(acc * base) ELSE acc,
                                  AsI32(base * base), exp \div 2)
    ELSE IF exp = 1 THEN Ok(AsI32(acc * base))
    ELSE Ok(acc)

RECURSIVE checked_pow_loop(_, _, _)
checked_pow_loop(acc, base, exp) ==
    IF exp > 1 THEN
        LET a1 == IF exp % 2 = 1 THEN checked_mul_i32(acc, base) ELSE Some(acc)
            b1 == checked_mul_i32(base, base)
        IN  IF a1.tag = "None" THEN Err("OverflowError")
            ELSE IF b1.tag = "None" THEN Err("OverflowError")
            ELSE checked_pow_loop(a1.val, b1.val, exp \div 2)
    ELSE IF exp = 1 THEN
        LET a1 == checked_mul_i32(acc, base)
        IN  IF a1.tag = "None" THEN Err("OverflowError") ELSE Ok(a1.val)
    ELSE Ok(acc)

checked_pow(base, exp) == checked_pow_loop(1, base, exp)

\* Rational::pow; the recursive call on -exp is written pow_r in the source
RECURSIVE Rational_pow(_, _)
Rational_pow(r, exp) ==
    IF exp # 0 THEN
        IF exp > 0 THEN
            LET n == checked_pow(r.num, AsU32(exp))
                d == checked_pow(AsI32(r.den), AsU32(exp))
            IN  IF ~IsOk(n) THEN n
                ELSE IF ~IsOk(d) THEN d
                ELSE check_overflow(Rat(n.val, AsU32(d.val)))
        ELSE IF exp # MIN_NEG THEN
            LET p == Rational_pow(r, -exp)
            IN  IF ~IsOk(p) THEN p ELSE recip(p.val)
        ELSE IF (r.num = 1 \/ r.num = -1) /\ r.den = 1 THEN Ok(Rat(1, 1))
        ELSE Err("OverflowError")
    ELSE Ok(Rat(1, 1))

\* Rational::mul.  The arguments of gcd are i32, so the u32 denominators are
\* passed `as i32`; divisions of a u32 by a gcd use `gcd as u32` as line 205
\* does.  The first pre-division factor is spelled n1d1 at line 218 and is
\* the n1d2 of line 215.
Rational_mul(a, b) ==
    LET np == checked_mul_i32(a.num, b.num)
        dp == checked_mul_u32(a.den, b.den)
    IN  IF np.tag = "Some" /\ dp.tag = "Some" THEN
            LET g == gcd(np.val, AsI32(dp.val))
            IN  check_overflow(Rat(TruncDiv(np.val, g), dp.val \div AsU32(g)))
        ELSE
            LET n1d2 == gcd(a.num, AsI32(b.den))
                n2d1 == gcd(AsI32(a.den), b.num)
                n == checked_mul_i32(TruncDiv(a.num, n1d2), TruncDiv(b.num, n2d1))
                d == checked_mul_u32(a.den \div AsU32(n2d1), b.den \div AsU32(n1d2))
            IN  IF n.tag = "None" THEN Err("OverflowError")
                ELSE IF d.tag = "None" THEN Err("OverflowError")
                ELSE check_overflow(Rat(n.val, d.val))

Rational_div(a, b) ==
    LET rb == recip(b)
    IN  IF ~IsOk(rb) THEN rb ELSE Rational_mul(a, rb.val)

\* i32 `*` and `+`: an overflow aborts when the build checks overflow and
\* wraps around otherwise
MulI32(x, y) ==
    IF x * y \in I32 THEN Ok(x * y)
    ELSE IF overflow_checks THEN Panic ELSE Ok(AsI32(x * y))

AddI32(x, y) ==
    IF x + y \in I32 THEN Ok(x + y)
    ELSE IF overflow_checks THEN Panic ELSE Ok(AsI32(x + y))

Rational_add(a, b) ==
    LET dgcd == AsU32(gcd(AsI32(a.den), AsI32(b.den)))
        fa == a.den \div dgcd
        fb == b.den \div dgcd
        denom == checked_mul_u32(a.den, fb)
    IN  IF denom.tag = "None" THEN Err("OverflowError")
        ELSE LET p1 == MulI32(a.num, AsI32(fb))
                 p2 == MulI32(b.num, AsI32(fa))
             IN  IF ~IsOk(p1) THEN p1
                 ELSE IF ~IsOk(p2) THEN p2
                 ELSE LET s == AddI32(p1.val, p2.val)
                      IN  IF ~IsOk(s) THEN s
                          ELSE check_overflow(Rat(s.val, denom.val))

Rational_sub(a, b) == Rational_add(a, Rational_neg(b))

\* cmp::Ordering and Ord::cmp on integers
Less == "Less"
Equal == "Equal"
Greater == "Greater"
cmp_int(x, y) == IF x < y THEN Less ELSE IF x > y THEN Greater ELSE Equal
reverse(o) == IF o = Less THEN Greater ELSE IF o = Greater THEN Less ELSE o

\* Ord for Rational::cmp.  The first product is an i32 checked_mul on
\* self.num and the second a u32 checked_mul on self.den; past the two sign
\* tests neither numerator is negative.  unimplemented!() aborts.
RECURSIVE Rational_cmp(_, _)
Rational_cmp(a, b) ==
    IF is_negative(a) # is_negative(b) THEN Ok(cmp_int(a.num, b.num))
    ELSE IF is_negative(a) THEN
        LET c == Rational_cmp(Rational_neg(a), Rational_neg(b))
        IN  IF IsOk(c) THEN Ok(reverse(c.val)) ELSE c
    ELSE
        LET x == checked_mul_i32(a.num, AsI32(b.den))
            y == checked_mul_u32(a.den, AsU32(b.num))
        IN  IF x.tag = "Some" /\ y.tag = "Some" THEN Ok(cmp_int(x.val, y.val))
            ELSE IF a.num = b.num THEN Ok(cmp_int(b.den, a.den))
            ELSE Panic

(***************************************************************************)
(* Reference arithmetic used to state the properties                       *)
(***************************************************************************)
\* the invariant of the Rational type
ValidRational(r) ==
    /\ r.num \in I32 /\ r.num # MIN_NEG
    /\ r.den >= 1 /\ r.den <= MAX_POS
    /\ MathGCD(Abs(r.num), r.den) = 1

Rationals == {r \in [num : I32, den : 1 .. MAX_POS] : ValidRational(r)}

\* the fractions of small numerator and denominator and those at the ends of
\* the range: the second operands of the binary operations, and the Exact
\* operands of the value layer
ExactSamples ==
    {r \in Rationals : (Abs(r.num) <= 3 \/ Abs(r.num) >= MAX_POS - 1)
                          /\ (r.den <= 3 \/ r.den >= MAX_POS - 1)}

\* r denotes the real number n / d  (d # 0)
DenotesQuot(r, n, d) == r.num * d = n * r.den

(***************************************************************************)
(* The rational kernel as a state machine: one operation is applied to     *)
(* inputs drawn from the bounded domains                                   *)
(***************************************************************************)
Init ==
    /\ op = "init"
    /\ args = <<>>
    /\ out = None
    /\ overflow_checks \in BOOLEAN

DoNew ==
    /\ op = "init"
    /\ \E n \in I32, d \in I32 \ {0} :
          /\ op' = "new"
          /\ args' = <<n, d>>
          /\ out' = Rational_new(n, d)
    /\ UNCHANGED overflow_checks

DoFromInteger ==
    /\ op = "init"
    /\ \E n \in I32 :
          /\ op' = "from_integer"
          /\ args' = <<n>>
          /\ out' = from_integer(n)
    /\ UNCHANGED overflow_checks

DoRecip ==
    /\ op = "init"
    /\ \E a \in Rationals :
          /\ op' = "recip"
          /\ args' = <<a>>
          /\ out' = recip(a)
    /\ UNCHANGED overflow_checks

DoNeg ==
    /\ op = "init"
    /\ \E a \in Rationals :
          /\ op' = "neg"
          /\ args' = <<a>>
          /\ out' = Ok(Rational_neg(a))
    /\ UNCHANGED overflow_checks

DoPow ==
    /\ op = "init"
    /\ \E a \in Rationals, e \in I32 :
          /\ op' = "pow"
          /\ args' = <<a, e>>
          /\ out' = Rational_pow(a, e)
    /\ UNCHANGED overflow_checks

DoMul ==
    /\ op = "init"
    /\ \E a \in Rationals, b \in ExactSamples :
          /\ op' = "mul"
          /\ args' = <<a, b>>
          /\ out' = Rational_mul(a, b)
    /\ UNCHANGED overflow_checks

DoDiv ==
    /\ op = "init"
    /\ \E a \in Rationals, b \in ExactSamples :
          /\ op' = "div"
          /\ args' = <<a, b>>
          /\ out' = Rational_div(a, b)
    /\ UNCHANGED overflow_checks

DoAdd ==
    /\ op = "init"
    /\ \E a \in Rationals, b \in ExactSamples :
          /\ op' = "add"
          /\ args' = <<a, b>>
          /\ out' = Rational_add(a, b)
    /\ UNCHANGED overflow_checks

DoSub ==
    /\ op = "init"
    /\ \E a \in Rationals, b \in ExactSamples :
          /\ op' = "sub"
          /\ args' = <<a, b>>
          /\ out' = Rational_sub(a, b)
    /\ UNCHANGED overflow_checks

Next ==
    \/ DoNew \/ DoFromInteger \/ DoRecip \/ DoNeg \/ DoPow
    \/ DoMul \/ DoDiv \/ DoAdd \/ DoSub

Spec == Init /\ [][Next]_vars

(***************************************************************************)
(* The ordering of the rational kernel as a state machine                  *)
(***************************************************************************)
DoCmp ==
    /\ op = "init"
    /\ \E a \in Rationals, b \in Rationals :
          /\ op' = "cmp"
          /\ args' = <<a, b>>
          /\ out' = Rational_cmp(a, b)
    /\ UNCHANGED overflow_checks

NextOrder == DoCmp

SpecOrder == Init /\ [][NextOrder]_vars

(***************************************************************************)
(* f64.  A float is NaN, an infinity, or a finite value held as a fraction *)
(* n / d in lowest terms with n and d of bounded size: a result is rounded *)
(* by halving n and d until both fit, it overflows to an infinity when d   *)
(* vanishes and underflows to zero when n vanishes.  The sign of zero is   *)
(* not modelled.  A power with an irrational result is the finite non-zero *)
(* float "irr" of sign s, whose digits are not modelled; the sum of such a *)
(* float and one of the other sign is an "irr" of sign 0: its sign is not  *)
(* modelled either.                                                        *)
(***************************************************************************)
NaN == [k |-> "nan", n |-> 0, d |-> 1]
Inf(s) == [k |-> "inf", n |-> s, d |-> 1]
Irr(s) == [k |-> "irr", n |-> s, d |-> 1]

\* largest numerator and denominator of the float standing for f64
F64_MAX == Pow2(2 * IntBits + 2)

\* round n / d (n >= 0, d >= 0) to the precision of the float
RECURSIVE RoundF(_, _, _)
RoundF(s, n, d) ==
    IF d = 0 THEN Inf(s)
    ELSE IF n = 0 THEN [k |-> "fin", n |-> 0, d |-> 1]
    ELSE IF n > F64_MAX \/ d > F64_MAX THEN RoundF(s, n \div 2, d \div 2)
    ELSE [k |-> "fin", n |-> s * (n \div MathGCD(n, d)), d |-> d \div MathGCD(n, d)]

\* the float nearest to n / d  (d # 0)
Fin(n, d) ==
    LET g == MathGCD(Abs(n), Abs(d))
    IN  RoundF(Signum(n) * Signum(d), Abs(n) \div g, Abs(d) \div g)

is_nan(f) == f.k = "nan"
IsFin(f) == f.k = "fin"
IsZeroF(f) == f.k = "fin" /\ f.n = 0
FSign(f) == Signum(f.n)
FNeg(f) == IF f.k = "nan" THEN f ELSE [f EXCEPT !.n = -f.n]

\* f64 `+`
FAdd(x, y) ==
    CASE is_nan(x) \/ is_nan(y) -> NaN
      [] x.k = "inf" /\ y.k = "inf" -> IF x.n = y.n THEN x ELSE NaN
      [] x.k = "inf" -> x
      [] y.k = "inf" -> y
      [] IsFin(x) /\ IsFin(y) -> Fin(x.n * y.d + y.n * x.d, x.d * y.d)
      [] IsZeroF(x) -> y
      [] IsZeroF(y) -> x
      [] OTHER -> Irr(IF FSign(x) = FSign(y) THEN FSign(x) ELSE 0)

\* f64 `-`
FSub(x, y) == FAdd(x, FNeg(y))

\* f64 `*`
FMul(x, y) ==
    CASE is_nan(x) \/ is_nan(y) -> NaN
      [] (x.k = "inf" /\ IsZeroF(y)) \/ (IsZeroF(x) /\ y.k = "inf") -> NaN
      [] x.k = "inf" \/ y.k = "inf" -> Inf(FSign(x) * FSign(y))
      [] IsFin(x) /\ IsFin(y) -> Fin(x.n * y.n, x.d * y.d)
      [] IsZeroF(x) \/ IsZeroF(y) -> Fin(0, 1)
      [] OTHER -> Irr(FSign(x) * FSign(y))

\* f64 `/`
FDiv(x, y) ==
    CASE is_nan(x) \/ is_nan(y) -> NaN
      [] x.k = "inf" /\ y.k = "inf" -> NaN
      [] IsZeroF(x) /\ IsZeroF(y) -> NaN
      [] x.k = "inf" -> Inf(FSign(x) * (IF FSign(y) < 0 THEN -1 ELSE 1))
      [] y.k = "inf" -> Fin(0, 1)
      [] IsZeroF(y) -> Inf(FSign(x))
      [] IsFin(x) /\ IsFin(y) -> Fin(x.n * y.d, x.d * y.n)
      [] IsZeroF(x) -> Fin(0, 1)
      [] OTHER -> Irr(FSign(x) * FSign(y))

\* x^e for a finite x # 0 and an integer e >= 0, saturating like Fin
RECURSIVE FPowNat(_, _)
FPowNat(x, e) ==
    IF e = 0 THEN Fin(1, 1)
    ELSE LET p == FPowNat(x, e - 1)
         IN  IF p.k # "fin" \/ p.n = 0 THEN
                 (IF p.k = "inf" /\ x.n < 0 THEN FNeg(p) ELSE p)
             ELSE Fin(p.n * x.n, p.d * x.d)

\* f64::powi, and f64::powf for an exponent with an integer value
FPowInt(x, e) ==
    CASE is_nan(x) -> IF e = 0 THEN Fin(1, 1) ELSE NaN
      [] e = 0 -> Fin(1, 1)
      [] x.k = "inf" ->
            IF e > 0 THEN Inf(IF x.n < 0 /\ e % 2 = 1 THEN -1 ELSE 1) ELSE Fin(0, 1)
      [] IsZeroF(x) -> IF e > 0 THEN Fin(0, 1) ELSE Inf(1)
      [] IsFin(x) -> IF e > 0 THEN FPowNat(x, e) ELSE FPowNat(Fin(x.d, x.n), -e)
      [] OTHER -> Irr(IF x.n < 0 /\ e % 2 = 1 THEN -1 ELSE 1)

\* f64::powf
FPowF(x, y) ==
    CASE is_nan(y) -> NaN
      [] IsFin(y) /\ y.d = 1 -> FPowInt(x, y.n)
      [] is_nan(x) -> NaN
      [] x.k = "fin" /\ x.n = 1 /\ x.d = 1 -> Fin(1, 1)
      [] y.k = "inf" ->
            IF x.k = "fin" /\ x.n = -1 /\ x.d = 1 THEN Fin(1, 1)
            ELSE IF (x.k = "inf" \/ (x.k = "fin" /\ Abs(x.n) > x.d)) = (y.n > 0)
                 THEN Inf(1) ELSE Fin(0, 1)
      [] x.k = "inf" -> IF FSign(y) > 0 THEN Inf(1) ELSE Fin(0, 1)
      [] IsZeroF(x) -> IF FSign(y) > 0 THEN Fin(0, 1) ELSE Inf(1)
      [] FSign(x) < 0 -> NaN
      [] OTHER -> Irr(1)

\* f64::fract() == 0.0
fract_is_zero(f) == IsFin(f) /\ f.d = 1

\* f64::abs() <= i32::max_value() as f64
abs_le_max(f) == IsFin(f) /\ Abs(f.n) <= MAX_POS * f.d

(***************************************************************************)
(* src/value.rs                                                            *)
(***************************************************************************)
Exact(r) == [tag |-> "Exact", val |-> r]
Inexact(f) == [tag |-> "Inexact", val |-> f]

\* AsFloat for Rational: the numerator over the denominator
Rational_as_float(r) == Fin(r.num, r.den)

\* AsFloat for Value
as_float(v) == IF v.tag = "Inexact" THEN v.val ELSE Rational_as_float(v.val)

\* mutation: NaN is not rejected
from_inexact_unchecked(f) == Ok(Inexact(f))

from_inexact(f) == IF ~is_nan(f) THEN Ok(Inexact(f)) ELSE Err("DomainError")

\* the grid of the literals held exactly: multiples of 1 / 8
InputScale == 8

\* Value::from_float as written in src/value.rs
from_float(f) ==
    IF ~is_nan(f) THEN
        IF ~fract_is_zero(FMul(f, Fin(InputScale, 1))) THEN Ok(Inexact(f))
        ELSE LET num == FMul(f, Fin(InputScale, 1))
             IN  IF ~abs_le_max(num) THEN Ok(Inexact(f))
                 ELSE LET r == Rational_new(AsI32(num.n), AsI32(InputScale))
                      IN  IF IsOk(r) THEN Ok(Exact(r.val))
                          ELSE IF r.tag = "Panic" THEN r
                          ELSE Err("DomainError")
    ELSE Err("DomainError")

get_exact(v) == IF v.tag = "Exact" THEN Some(v.val) ELSE None

as_integer(v) ==
    IF v.tag = "Exact" THEN (IF is_integer(v.val) THEN Some(v.val.num) ELSE None)
    ELSE IF fract_is_zero(v.val) /\ abs_le_max(v.val) THEN Some(v.val.n) ELSE None

\* a.op(b).map(Value::Exact).or_else(|_| Value::from_inexact(fallback))
ExactOrElse(r, fallback) ==
    IF IsOk(r) THEN Ok(Exact(r.val))
    ELSE IF r.tag = "Panic" THEN r
    ELSE from_inexact(fallback)

Value_add(x, y) ==
    IF get_exact(x).tag = "Some" /\ get_exact(y).tag = "Some"
    THEN ExactOrElse(Rational_add(x.val, y.val), FAdd(as_float(x), as_float(y)))
    ELSE from_inexact(FAdd(as_float(x), as_float(y)))

Value_sub(x, y) ==
    IF get_exact(x).tag = "Some" /\ get_exact(y).tag = "Some"
    THEN ExactOrElse(Rational_sub(x.val, y.val), FSub(as_float(x), as_float(y)))
    ELSE from_inexact(FSub(as_float(x), as_float(y)))

Value_mul(x, y) ==
    IF get_exact(x).tag = "Some" /\ get_exact(y).tag = "Some"
    THEN ExactOrElse(Rational_mul(x.val, y.val), FMul(as_float(x), as_float(y)))
    ELSE from_inexact(FMul(as_float(x), as_float(y)))

Value_div(x, y) ==
    IF get_exact(x).tag = "Some" /\ get_exact(y).tag = "Some"
    THEN ExactOrElse(Rational_div(x.val, y.val), FDiv(as_float(x), as_float(y)))
    ELSE from_inexact(FDiv(as_float(x), as_float(y)))

Value_pow(x, y) ==
    IF get_exact(x).tag = "Some" THEN
        IF as_integer(y).tag = "Some"
        THEN ExactOrElse(Rational_pow(x.val, as_integer(y).val),
                         FPowInt(Rational_as_float(x.val), as_integer(y).val))
        ELSE from_inexact(FPowF(Rational_as_float(x.val), as_float(y)))
    ELSE from_inexact(FPowF(as_float(x), as_float(y)))

\* the Inexact operands the value layer is exercised with: both infinities,
\* small integers and halves, and one magnitude beyond i32
InexactSamples ==
    {Inf(1), Inf(-1), Fin(MAX_POS + 1, 1), Fin(-(MAX_POS + 1), 1)}
        \cup {Fin(n, d) : n \in -3 .. 3, d \in {1, 2}}

Values == {Exact(r) : r \in ExactSamples} \cup {Inexact(f) : f \in InexactSamples}

DoValueAdd ==
    /\ op = "init"
    /\ \E a \in Values, b \in Values :
          /\ op' = "Value::add"
          /\ args' = <<a, b>>
          /\ out' = Value_add(a, b)
    /\ UNCHANGED overflow_checks

DoValueSub ==
    /\ op = "init"
    /\ \E a \in Values, b \in Values :
          /\ op' = "Value::sub"
          /\ args' = <<a, b>>
          /\ out' = Value_sub(a, b)
    /\ UNCHANGED overflow_checks

DoValueMul ==
    /\ op = "init"
    /\ \E a \in Values, b \in Values :
          /\ op' = "Value::mul"
          /\ args' = <<a, b>>
          /\ out' = Value_mul(a, b)
    /\ UNCHANGED overflow_checks

DoValueDiv ==
    /\ op = "init"
    /\ \E a \in Values, b \in Values :
          /\ op' = "Value::div"
          /\ args' = <<a, b>>
          /\ out' = Value_div(a, b)
    /\ UNCHANGED overflow_checks

DoValuePow ==
    /\ op = "init"
    /\ \E a \in Values, b \in Values :
          /\ op' = "Value::pow"
          /\ args' = <<a, b>>
          /\ out' = Value_pow(a, b)
    /\ UNCHANGED overflow_checks

NextValue == DoValueAdd \/ DoValueSub \/ DoValueMul \/ DoValueDiv \/ DoValuePow

SpecValue == Init /\ [][NextValue]_vars

(***************************************************************************)
(* Unit (src/unit.rs is not part of the sources: modelled from the         *)
(* specification) and src/uval.rs                                          *)
(***************************************************************************)
Dims == 1 .. NumDims
UnitExps == -MaxUnitExp .. MaxUnitExp
Units == [Dims -> UnitExps]

Unit_zero == [i \in Dims |-> 0]

\* a vector of exponents, or UnitError when a component leaves its range
CheckedUnit(w) ==
    IF \A i \in Dims : w[i] \in UnitExps THEN Ok(w) ELSE Err("UnitError")

Unit_add(u, v) == CheckedUnit([i \in Dims |-> u[i] + v[i]])
Unit_sub(u, v) == CheckedUnit([i \in Dims |-> u[i] - v[i]])

\* scalar multiplication by an exact integer exponent
Unit_mul(u, e) ==
    IF is_integer(e) THEN CheckedUnit([i \in Dims |-> u[i] * e.num])
    ELSE Err("UnitError")

UV(v, u) == [value |-> v, unit |-> u]

unitless(a) == a.unit = Unit_zero

\* Neg for Value
Value_neg(v) ==
    IF v.tag = "Exact" THEN Exact(Rational_neg(v.val)) ELSE Inexact(FNeg(v.val))

\* mutation: the negation loses the unit
UnitValue_neg_unitless(a) == UV(Value_neg(a.value), Unit_zero)

\* Neg for UnitValue
UnitValue_neg(a) == UV(Value_neg(a.value), a.unit)

\* mutation: the units are not compared
UnitValue_add_unchecked(a, b) ==
    LET v == Value_add(a.value, b.value)
    IN  IF ~IsOk(v) THEN v ELSE Ok(UV(v.val, a.unit))

UnitValue_add(a, b) ==
    IF a.unit = b.unit THEN
        LET v == Value_add(a.value, b.value)
        IN  IF ~IsOk(v) THEN v ELSE Ok(UV(v.val, a.unit))
    ELSE Err("UnitError")

UnitValue_sub(a, b) ==
    IF a.unit = b.unit THEN
        LET v == Value_sub(a.value, b.value)
        IN  IF ~IsOk(v) THEN v ELSE Ok(UV(v.val, a.unit))
    ELSE Err("UnitError")

UnitValue_mul(a, b) ==
    LET v == Value_mul(a.value, b.value)
        u == Unit_add(a.unit, b.unit)
    IN  IF ~IsOk(v) THEN v
        ELSE IF ~IsOk(u) THEN u
        ELSE Ok(UV(v.val, u.val))

\* mutation: the units are added as in mul
UnitValue_div_adding(a, b) ==
    LET v == Value_div(a.value, b.value)
        u == Unit_add(a.unit, b.unit)
    IN  IF ~IsOk(v) THEN v
        ELSE IF ~IsOk(u) THEN u
        ELSE Ok(UV(v.val, u.val))

UnitValue_div(a, b) ==
    LET v == Value_div(a.value, b.value)
        u == Unit_sub(a.unit, b.unit)
    IN  IF ~IsOk(v) THEN v
        ELSE IF ~IsOk(u) THEN u
        ELSE Ok(UV(v.val, u.val))

\* mutation: the unit of the base is kept, not scaled by the exponent
UnitValue_pow_unscaled(a, b) ==
    IF unitless(b) THEN
        IF unitless(a) THEN
            LET v == Value_pow(a.value, b.value)
            IN  IF ~IsOk(v) THEN v ELSE Ok(UV(v.val, Unit_zero))
        ELSE
            LET e == get_exact(b.value)
            IN  IF e.tag = "Some" THEN
                    LET v == Value_pow(a.value, b.value)
                    IN  IF ~IsOk(v) THEN v ELSE Ok(UV(v.val, a.unit))
                ELSE Err("UnitError")
    ELSE Err("UnitError")

UnitValue_pow(a, b) ==
    IF unitless(b) THEN
        IF unitless(a) THEN
            LET v == Value_pow(a.value, b.value)
            IN  IF ~IsOk(v) THEN v ELSE Ok(UV(v.val, Unit_zero))
        ELSE
            LET e == get_exact(b.value)
            IN  IF e.tag = "Some" THEN
                    LET v == Value_pow(a.value, b.value)
                        u == Unit_mul(a.unit, e.val)
                    IN  IF ~IsOk(v) THEN v
                        ELSE IF ~IsOk(u) THEN u
                        ELSE Ok(UV(v.val, u.val))
                ELSE Err("UnitError")
    ELSE Err("UnitError")

\* the scalars the unit layer is exercised with
UnitValueScalars ==
    {Exact(Rat(0, 1)), Exact(Rat(2, 1)), Exact(Rat(-1, 1)), Exact(Rat(1, 2)),
     Exact(Rat(-2, 1)),
     Inexact(Inf(1)), Inexact(Inf(-1)), Inexact(Fin(2, 1)), Inexact(Fin(1, 2))}

UnitValues == {UV(v, u) : v \in UnitValueScalars, u \in Units}

DoUnitValueAdd ==
    /\ op = "init"
    /\ \E a \in UnitValues, b \in UnitValues :
          /\ op' = "UnitValue::add"
          /\ args' = <<a, b>>
          /\ out' = UnitValue_add(a, b)
    /\ UNCHANGED overflow_checks

DoUnitValueSub ==
    /\ op = "init"
    /\ \E a \in UnitValues, b \in UnitValues :
          /\ op' = "UnitValue::sub"
          /\ args' = <<a, b>>
          /\ out' = UnitValue_sub(a, b)
    /\ UNCHANGED overflow_checks

DoUnitValueMul ==
    /\ op = "init"
    /\ \E a \in UnitValues, b \in UnitValues :
          /\ op' = "UnitValue::mul"
          /\ args' = <<a, b>>
          /\ out' = UnitValue_mul(a, b)
    /\ UNCHANGED overflow_checks

DoUnitValueDiv ==
    /\ op = "init"
    /\ \E a \in UnitValues, b \in UnitValues :
          /\ op' = "UnitValue::div"
          /\ args' = <<a, b>>
          /\ out' = UnitValue_div(a, b)
    /\ UNCHANGED overflow_checks

DoUnitValuePow ==
    /\ op = "init"
    /\ \E a \in UnitValues, b \in UnitValues :
          /\ op' = "UnitValue::pow"
          /\ args' = <<a, b>>
          /\ out' = UnitValue_pow(a, b)
    /\ UNCHANGED overflow_checks

NextUnitValue ==
    \/ DoUnitValueAdd \/ DoUnitValueSub \/ DoUnitValueMul
    \/ DoUnitValueDiv \/ DoUnitValuePow

SpecUnitValue == Init /\ [][NextUnitValue]_vars

(***************************************************************************)
(* The functions of the registry (src/main.rs, get_function) on floats.    *)
(* A result that is not rational is the float "irr" with the sign of the   *)
(* mathematical result; pi is taken as 355 / 113 to find the quadrant.     *)
(***************************************************************************)
\* the quadrant 0..3 of the finite angle x
Quadrant(x) == ((2 * 113 * x.n) \div (355 * x.d)) % 4

FSin(x) ==
    IF ~IsFin(x) THEN (IF x.k = "irr" THEN Irr(1) ELSE NaN)
    ELSE IF x.n = 0 THEN Fin(0, 1)
    ELSE Irr(IF Quadrant(x) \in {0, 1} THEN 1 ELSE -1)

FCos(x) ==
    IF ~IsFin(x) THEN (IF x.k = "irr" THEN Irr(1) ELSE NaN)
    ELSE IF x.n = 0 THEN Fin(1, 1)
    ELSE Irr(IF Quadrant(x) \in {0, 3} THEN 1 ELSE -1)

FTan(x) ==
    IF ~IsFin(x) THEN (IF x.k = "irr" THEN Irr(1) ELSE NaN)
    ELSE IF x.n = 0 THEN Fin(0, 1)
    ELSE Irr(IF Quadrant(x) \in {0, 2} THEN 1 ELSE -1)

\* y.atan2(x)
FAtan2(y, x) ==
    IF is_nan(y) \/ is_nan(x) THEN NaN
    ELSE IF IsZeroF(y) THEN (IF FSign(x) >= 0 THEN Fin(0, 1) ELSE Irr(1))
    ELSE Irr(FSign(y))

FunctionNames == {"sin", "cos", "tan", "atan2"}

\* the callable get_function returns for a name, applied to the vector a:
\* the unary functions read a[0], atan2 reads a[0] and a[1]; an index past
\* the end of the vector aborts
ApplyFunction(f, a) ==
    IF f = "atan2" THEN (IF Len(a) < 2 THEN Panic ELSE Ok(FAtan2(a[1], a[2])))
    ELSE IF Len(a) < 1 THEN Panic
    ELSE IF f = "sin" THEN Ok(FSin(a[1]))
    ELSE IF f = "cos" THEN Ok(FCos(a[1]))
    ELSE Ok(FTan(a[1]))

(***************************************************************************)
(* Expression and the folder (src/main.rs)                                 *)
(***************************************************************************)
EValue(uv) == [kind |-> "Value", uv |-> uv]
EError(e) == [kind |-> "Error", err |-> e]
EBin(k, l, r) == [kind |-> k, lhs |-> l, rhs |-> r]
ENeg(a) == [kind |-> "Neg", arg |-> a]
ECall(f, a) == [kind |-> "Call", f |-> f, args |-> a]
\* the evaluation was aborted: no Expression is returned
EPanic == [kind |-> "Panic"]

BinaryKinds == {"Exp", "Mul", "Div", "Add", "Sub"}

is_known(e) == e.kind = "Value"
is_error(e) == e.kind = "Error"

\* UnitValue::from_float
UnitValue_from_float(f) ==
    LET v == from_float(f)
    IN  IF ~IsOk(v) THEN v ELSE Ok(UV(v.val, Unit_zero))

\* make_value on a Result<UnitValue, ArithmeticError>
make_value(r) ==
    IF IsOk(r) THEN EValue(r.val)
    ELSE IF r.tag = "Err" THEN EError(r.err)
    ELSE EPanic

\* make_value on an f64 (ToValue for f64)
make_value_f64(f) == make_value(UnitValue_from_float(f))

\* Expression::extract_float of a Value
extract_float(e) == as_float(e.uv.value)

all_known(a) == \A i \in 1 .. Len(a) : is_known(a[i])
any_error(a) == \E i \in 1 .. Len(a) : is_error(a[i])

\* a.iter().find(|e| e.is_error())
first_error(a) == a[CHOOSE i \in 1 .. Len(a) : is_error(a[i]) /\ \A j \in 1 .. (i - 1) : ~is_error(a[j])]

\* the operation a binary node stands for
ApplyBinary(k, a, b) ==
    CASE k = "Exp" -> UnitValue_pow(a, b)
      [] k = "Mul" -> UnitValue_mul(a, b)
      [] k = "Div" -> UnitValue_div(a, b)
      [] k = "Add" -> UnitValue_add(a, b)
      [] k = "Sub" -> UnitValue_sub(a, b)

\* mutation: the Error of the left operand is matched before the right one
simplify1_binary_left_first(expr) ==
    IF is_known(expr.lhs) /\ is_known(expr.rhs)
    THEN make_value(ApplyBinary(expr.kind, expr.lhs.uv, expr.rhs.uv))
    ELSE IF is_error(expr.lhs) THEN expr.lhs
    ELSE IF is_error(expr.rhs) THEN expr.rhs
    ELSE expr

\* the arms of simplify1 for Exp, Mul, Div, Add and Sub, in their order
simplify1_binary(expr) ==
    IF is_known(expr.lhs) /\ is_known(expr.rhs)
    THEN make_value(ApplyBinary(expr.kind, expr.lhs.uv, expr.rhs.uv))
    ELSE IF is_error(expr.rhs) THEN expr.rhs
    ELSE IF is_error(expr.lhs) THEN expr.lhs
    ELSE expr

\* mutation: the negation of a Value is left as a Neg node
simplify1_neg_residual(expr) ==
    IF expr.arg.kind = "Neg" THEN expr.arg.arg
    ELSE IF is_error(expr.arg) THEN expr.arg
    ELSE expr

\* the arms of simplify1 for Neg
simplify1_neg(expr) ==
    IF is_known(expr.arg) THEN make_value(Ok(UnitValue_neg(expr.arg.uv)))
    ELSE IF expr.arg.kind = "Neg" THEN expr.arg.arg
    ELSE IF is_error(expr.arg) THEN expr.arg
    ELSE expr

\* the arms of simplify1 for Call
simplify1_call(expr) ==
    IF all_known(expr.args) THEN
        LET r == ApplyFunction(expr.f, [i \in 1 .. Len(expr.args) |-> extract_float(expr.args[i])])
        IN  IF IsOk(r) THEN make_value_f64(r.val) ELSE EPanic
    ELSE IF any_error(expr.args) THEN first_error(expr.args)
    ELSE expr

\* Calculator::simplify1
simplify1(expr) ==
    IF expr.kind \in BinaryKinds THEN simplify1_binary(expr)
    ELSE IF expr.kind = "Neg" THEN simplify1_neg(expr)
    ELSE IF expr.kind = "Call" THEN simplify1_call(expr)
    ELSE expr

ErrorKinds == {"DivideByZeroError", "DomainError", "OverflowError", "UnitError"}

\* the leaves the folder is exercised with
FoldValues ==
    {UV(Exact(Rat(2, 1)), Unit_zero),
     UV(Exact(Rat(1, 2)), [i \in Dims |-> IF i = 1 THEN 1 ELSE 0]),
     UV(Inexact(Inf(1)), Unit_zero)}

Leaves == {EValue(v) : v \in FoldValues} \cup {EError(k) : k \in ErrorKinds}

\* leaves and nodes over leaves that the folder has not been applied to
Operands ==
    Leaves \cup {ENeg(l) : l \in Leaves}
           \cup {EBin(k, l, EValue(UV(Exact(Rat(2, 1)), Unit_zero))) : k \in BinaryKinds, l \in Leaves}

FoldInputs ==
    {EBin(k, l, r) : k \in BinaryKinds, l \in Operands, r \in Operands}
        \cup {ENeg(a) : a \in Operands}
        \cup {ECall(f, <<a>>) : f \in FunctionNames, a \in Leaves}
        \cup {ECall(f, <<a, b>>) : f \in FunctionNames, a \in Leaves, b \in Leaves}

DoSimplify1 ==
    /\ op = "init"
    /\ \E e \in FoldInputs :
          /\ op' = "simplify1"
          /\ args' = <<e>>
          /\ out' = simplify1(e)
    /\ UNCHANGED overflow_checks

NextFold == DoSimplify1

SpecFold == Init /\ [][NextFold]_vars

(***************************************************************************)
(* Two signs in front of an operand as a state machine: the arm for '-' of *)
(* unary hands Neg of its operand to simplify1, and its operand is the     *)
(* result of unary on the rest, so `--e` is folded from the inside         *)
(***************************************************************************)
\* the operands: the Values of the value layer with every unit, every Error,
\* the nodes the folder has not been applied to, and calls on such nodes
NegationOperands ==
    {EValue(UV(v, u)) : v \in Values, u \in Units}
        \cup {EError(k) : k \in ErrorKinds}
        \cup FoldInputs
        \cup {ECall(f, <<a>>) : f \in FunctionNames, a \in Operands \ Leaves}

DoNegateTwice ==
    /\ op = "init"
    /\ \E e \in NegationOperands :
          /\ op' = "negate_twice"
          /\ args' = <<e>>
          /\ out' = simplify1(ENeg(simplify1(ENeg(e))))
    /\ UNCHANGED overflow_checks

NextNegation == DoNegateTwice

SpecNegation == Init /\ [][NextNegation]_vars

(***************************************************************************)
(* The parser (src/main.rs).  The input is a sequence of pieces of text:   *)
(* single characters, and words of letters that are read as their letters  *)
(* in a row.  A parser returns Done with the rest of the input and a       *)
(* value, or Error; Panic stands for an abort during a reduction.          *)
(***************************************************************************)
PDone(rest, val) == [st |-> "Done", rest |-> rest, val |-> val]
PError == [st |-> "Error"]
PPanic == [st |-> "Panic"]
IsDone(r) == r.st = "Done"

\* the result of a reduction: the folded node, or Panic when folding aborted
Reduced(rest, e) == IF e.kind = "Panic" THEN PPanic ELSE PDone(rest, e)

Whitespace == {" "}
DigitChars == {"0", "1", "2", "3", "4", "5", "6", "7", "8", "9"}
\* the words of letters that occur in the inputs
LetterWords == {"e", "E", "pi", "m", "sin", "cos", "tan", "atan"}

DigitVal(c) ==
    CASE c = "0" -> 0 [] c = "1" -> 1 [] c = "2" -> 2 [] c = "3" -> 3 [] c = "4" -> 4
      [] c = "5" -> 5 [] c = "6" -> 6 [] c = "7" -> 7 [] c = "8" -> 8 [] c = "9" -> 9

Drop(i, n) == SubSeq(i, n + 1, Len(i))
Take(i, n) == SubSeq(i, 1, n)

RECURSIVE Concat(_)
Concat(t) == IF t = <<>> THEN "" ELSE Head(t) \o Concat(Tail(t))

\* the length of the longest prefix of i made of pieces in the set cs
RECURSIVE RunLen(_, _)
RunLen(i, cs) == IF i # <<>> /\ Head(i) \in cs THEN 1 + RunLen(Tail(i), cs) ELSE 0

\* char!(c)
char(c, i) == IF i # <<>> /\ Head(i) = c THEN PDone(Tail(i), c) ELSE PError

\* opt!(multispace): the input after an optional run of whitespace
opt_multispace(i) == Drop(i, RunLen(i, Whitespace))

\* named!(decimal): many1!(one_of!("0123456789_"))
decimal(i) ==
    LET n == RunLen(i, DigitChars \cup {"_"})
    IN  IF n >= 1 THEN PDone(Drop(i, n), Take(i, n)) ELSE PError

\* preceded!(one_of!("eE"), preceded!(opt!(one_of!("+-")), decimal))?  :
\* the input after the exponent part, or i when there is none
opt_exponent(i) ==
    IF i # <<>> /\ Head(i) \in {"e", "E"} THEN
        LET j == Tail(i)
            k == IF j # <<>> /\ Head(j) \in {"+", "-"} THEN Tail(j) ELSE j
            d == decimal(k)
        IN  IF IsDone(d) THEN d.rest ELSE i
    ELSE i

\* recognize_number1: digits, then optionally a point and digits, then
\* optionally an exponent; the value is the text recognized
recognize_number1(i) ==
    LET d == decimal(i)
    IN  IF ~IsDone(d) THEN PError
        ELSE LET j == IF d.rest # <<>> /\ Head(d.rest) = "."
                       THEN Drop(Tail(d.rest), RunLen(Tail(d.rest), DigitChars \cup {"_"}))
                       ELSE d.rest
                 k == opt_exponent(j)
             IN  PDone(k, Take(i, Len(i) - Len(k)))

\* recognize_number2: a point, digits, then optionally an exponent
recognize_number2(i) ==
    IF i # <<>> /\ Head(i) = "." THEN
        LET d == decimal(Tail(i))
        IN  IF ~IsDone(d) THEN PError
            ELSE LET k == opt_exponent(d.rest)
                 IN  PDone(k, Take(i, Len(i) - Len(k)))
    ELSE PError

RECURSIVE DigitsToNat(_, _)
DigitsToNat(acc, t) == IF t = <<>> THEN acc ELSE DigitsToNat(10 * acc + DigitVal(Head(t)), Tail(t))

RECURSIVE Pow10(_)
Pow10(k) == IF k = 0 THEN 1 ELSE 10 * Pow10(k - 1)

\* str::parse::<f64> on a text of digits, a point and an exponent
parse_f64(t) ==
    LET ni == RunLen(t, DigitChars)
        t1 == Drop(t, ni)
        dot == t1 # <<>> /\ Head(t1) = "."
        t2 == IF dot THEN Tail(t1) ELSE t1
        nf == IF dot THEN RunLen(t2, DigitChars) ELSE 0
        t3 == Drop(t2, nf)
        mant == Fin(DigitsToNat(0, Take(t, ni) \o Take(t2, nf)), Pow10(nf))
    IN  IF ni + nf = 0 THEN None
        ELSE IF t3 = <<>> THEN Some(mant)
        ELSE IF Head(t3) \notin {"e", "E"} THEN None
        ELSE LET t4 == Tail(t3)
                 neg == t4 # <<>> /\ Head(t4) = "-"
                 t5 == IF t4 # <<>> /\ Head(t4) \in {"+", "-"} THEN Tail(t4) ELSE t4
                 ne == RunLen(t5, DigitChars)
                 e == DigitsToNat(0, t5)
             IN  IF ne = 0 \/ ne # Len(t5) THEN None
                 ELSE IF neg THEN Some(FDiv(mant, FPowInt(Fin(10, 1), e)))
                 ELSE Some(FMul(mant, FPowInt(Fin(10, 1), e)))

\* Calculator::number: one of the two forms (the second with a zero put in
\* front), underscores removed, read as a float
number(i) ==
    LET r1 == recognize_number1(i)
        r2 == recognize_number2(i)
        r == IF IsDone(r1) THEN r1
             ELSE IF IsDone(r2) THEN PDone(r2.rest, <<"0">> \o r2.val)
             ELSE PError
    IN  IF ~IsDone(r) THEN PError
        ELSE LET f == parse_f64(SelectSeq(r.val, LAMBDA c : c # "_"))
             IN  IF f.tag = "Some" THEN PDone(r.rest, f.val) ELSE PError

\* std::f64::consts::E and PI as floats of the model
F64_E == Fin(193, 71)
F64_PI == Fin(355, 113)

get_numerical_constant(name) ==
    IF name = "e" THEN Some(F64_E)
    ELSE IF name = "pi" THEN Some(F64_PI)
    ELSE None

\* units::get: the registry of units
get_unit(name) ==
    IF name = "m" THEN Some(UV(Exact(Rat(1, 1)), [d \in Dims |-> IF d = 1 THEN 1 ELSE 0]))
    ELSE None

get_unary_function(name) == IF name \in {"sin", "cos", "tan"} THEN Some(name) ELSE None

get_function(name) ==
    IF get_unary_function(name).tag = "Some" THEN Some(name)
    ELSE IF name = "atan2" THEN Some(name)
    ELSE None

\* Value::from_input: a multiple of 1 / 8 within the i32 range is held
\* exactly, every other float inexactly
Value_from_input(f) ==
    IF ~is_nan(f) THEN
        IF fract_is_zero(FMul(f, Fin(InputScale, 1))) /\ abs_le_max(FMul(f, Fin(InputScale, 1)))
        THEN LET r == Rational_new(AsI32(FMul(f, Fin(InputScale, 1)).n), AsI32(InputScale))
             IN  IF IsOk(r) THEN Ok(Exact(r.val))
                 ELSE IF r.tag = "Panic" THEN r
                 ELSE Err("DomainError")
        ELSE Ok(Inexact(f))
    ELSE Err("DomainError")

\* UnitValue::from_input
UnitValue_from_input(f) ==
    LET v == Value_from_input(f)
    IN  IF ~IsOk(v) THEN v ELSE Ok(UV(v.val, Unit_zero))

input_value(f) == make_value(UnitValue_from_input(f))

\* num_const: map_opt!(alpha, get_numerical_constant)
num_const(i) ==
    LET n == RunLen(i, LetterWords)
        c == get_numerical_constant(Concat(Take(i, n)))
    IN  IF n >= 1 /\ c.tag = "Some" THEN PDone(Drop(i, n), c.val) ELSE PError

\* unit_const: map_opt!(many1!(one_of!(letters, digits, '_')), get_unit)
unit_const(i) ==
    LET n == RunLen(i, LetterWords \cup DigitChars \cup {"_"})
        c == get_unit(Concat(Take(i, n)))
    IN  IF n >= 1 /\ c.tag = "Some" THEN PDone(Drop(i, n), c.val) ELSE PError

\* chain!: the next step runs on the result of a parser that is Done; an
\* Error (or an abort) of the parser is the result of the chain
Bind(r, K(_)) == IF r.st = "Done" THEN K(r) ELSE r

\* alt!, opt! and the end of many0!: on Error the alternative is taken
OrElse(r, q) == IF r.st = "Error" THEN q ELSE r

\* one_of!(cs)
one_of(cs, i) == IF i # <<>> /\ Head(i) \in cs THEN PDone(Tail(i), Head(i)) ELSE PError

\* map_opt!(alphanumeric, get_function)
function_name(i) ==
    LET n == RunLen(i, LetterWords \cup DigitChars)
        func == get_function(Concat(Take(i, n)))
    IN  IF n >= 1 /\ func.tag = "Some" THEN PDone(Drop(i, n), func.val) ELSE PError

\* The productions and the folder are methods of the Calculator: a
\* production calls another one with call_m!(self.name) and folds with
\* self.simplify1(..).  call_m is that call, by the name of the method.
RECURSIVE call_m(_, _), call_args(_, _), imul_others(_, _), fac_others(_, _),
          expr_others(_, _)

\* separated_nonempty_list!(delimited!(opt!(multispace), char!(','),
\* opt!(multispace)), expr) after its first element: acc is the list so far
call_args(acc, i) ==
    OrElse(Bind(char(",", opt_multispace(i)), LAMBDA c :
           Bind(call_m("expr", opt_multispace(c.rest)), LAMBDA e :
                call_args(Append(acc, e.val), e.rest))),
           PDone(i, acc))

\* parens: an expression in parentheses, or a function name followed by
\* its arguments in parentheses
parens(i) ==
    OrElse(Bind(char("(", i), LAMBDA open :
           Bind(call_m("expr", opt_multispace(open.rest)), LAMBDA e :
           Bind(char(")", opt_multispace(e.rest)), LAMBDA close :
                PDone(close.rest, e.val)))),
           Bind(function_name(i), LAMBDA func :
           Bind(char("(", func.rest), LAMBDA open :
           Bind(call_m("expr", opt_multispace(open.rest)), LAMBDA first :
           Bind(call_args(<<first.val>>, first.rest), LAMBDA list :
           Bind(char(")", opt_multispace(list.rest)), LAMBDA close :
                Reduced(close.rest, call_m("simplify1", ECall(func.val, list.val)))))))))

\* atom: parens, a number, a numerical constant or a unit, in this order
atom(i) ==
    OrElse(call_m("parens", i),
    OrElse(Bind(number(i), LAMBDA n : Reduced(n.rest, input_value(n.val))),
    OrElse(Bind(num_const(i), LAMBDA c : Reduced(c.rest, make_value_f64(c.val))),
           Bind(unit_const(i), LAMBDA u : PDone(u.rest, EValue(u.val))))))

\* many0!(atom) folded from the left with Mul
imul_others(lhs, i) ==
    OrElse(Bind(call_m("atom", i), LAMBDA a :
           Bind(Reduced(a.rest, call_m("simplify1", EBin("Mul", lhs, a.val))), LAMBDA e :
                imul_others(e.val, e.rest))),
           PDone(i, lhs))

imul(i) == Bind(call_m("atom", i), LAMBDA first : imul_others(first.val, first.rest))

\* mutation: the exponent is an imul, so that neither a second '^' nor a
\* sign can follow the '^'
exp_of_imul(i) ==
    Bind(call_m("imul", i), LAMBDA lhs :
         OrElse(Bind(char("^", opt_multispace(lhs.rest)), LAMBDA hat :
                Bind(call_m("imul", opt_multispace(hat.rest)), LAMBDA rhs :
                     Reduced(rhs.rest, call_m("simplify1", EBin("Exp", lhs.val, rhs.val))))),
                lhs))

\* exp: imul, then optionally '^' and a unary
exp(i) ==
    Bind(call_m("imul", i), LAMBDA lhs :
         OrElse(Bind(char("^", opt_multispace(lhs.rest)), LAMBDA hat :
                Bind(call_m("unary", opt_multispace(hat.rest)), LAMBDA rhs :
                     Reduced(rhs.rest, call_m("simplify1", EBin("Exp", lhs.val, rhs.val))))),
                lhs))

\* unary: exp, or a sign, optional whitespace and a unary
unary(i) ==
    OrElse(call_m("exp", i),
           Bind(one_of({"+", "-"}, i), LAMBDA o :
           Bind(call_m("unary", opt_multispace(o.rest)), LAMBDA val :
                IF o.val = "-" THEN Reduced(val.rest, call_m("simplify1", ENeg(val.val)))
                ELSE val)))

\* mutation: whitespace is read as '*' whatever follows it
facterm_unpeeked(i) ==
    Bind(OrElse(char("*", opt_multispace(i)),
         OrElse(char("/", opt_multispace(i)),
                IF RunLen(i, Whitespace) >= 1
                THEN PDone(opt_multispace(i), "*")
                ELSE PError)), LAMBDA o :
    Bind(call_m("unary", opt_multispace(o.rest)), LAMBDA u :
         PDone(u.rest, <<o.val, u.val>>)))

\* facterm: '*' or '/' after optional whitespace, or whitespace followed by
\* a character other than '+' and '-' (read as '*'); then a unary.  The
\* value is the pair of the operator and the operand.
facterm(i) ==
    Bind(OrElse(char("*", opt_multispace(i)),
         OrElse(char("/", opt_multispace(i)),
                IF /\ RunLen(i, Whitespace) >= 1
                   /\ opt_multispace(i) # <<>>
                   /\ Head(opt_multispace(i)) \notin {"+", "-"}
                THEN PDone(opt_multispace(i), "*")
                ELSE PError)), LAMBDA o :
    Bind(call_m("unary", opt_multispace(o.rest)), LAMBDA u :
         PDone(u.rest, <<o.val, u.val>>)))

\* mutation: the operands of the folded node are exchanged
fac_others_exchanged(lhs, i) ==
    OrElse(Bind(call_m("facterm", i), LAMBDA t :
           Bind(Reduced(t.rest, call_m("simplify1",
                                       EBin(IF t.val[1] = "/" THEN "Div" ELSE "Mul",
                                            t.val[2], lhs))), LAMBDA e :
                fac_others(e.val, e.rest))),
           PDone(i, lhs))

\* many0!(facterm) folded from the left
fac_others(lhs, i) ==
    OrElse(Bind(call_m("facterm", i), LAMBDA t :
           Bind(Reduced(t.rest, call_m("simplify1",
                                       EBin(IF t.val[1] = "/" THEN "Div" ELSE "Mul",
                                            lhs, t.val[2]))), LAMBDA e :
                fac_others(e.val, e.rest))),
           PDone(i, lhs))

fac(i) == Bind(call_m("unary", i), LAMBDA first : fac_others(first.val, first.rest))

\* many0!(('+' | '-') fac) folded from the left
expr_others(lhs, i) ==
    OrElse(Bind(one_of({"+", "-"}, opt_multispace(i)), LAMBDA sign :
           Bind(call_m("fac", opt_multispace(sign.rest)), LAMBDA f :
           Bind(Reduced(f.rest, call_m("simplify1",
                                       EBin(IF sign.val = "-" THEN "Sub" ELSE "Add",
                                            lhs, f.val))), LAMBDA e :
                expr_others(e.val, e.rest)))),
           PDone(i, lhs))

expr(i) == Bind(call_m("fac", i), LAMBDA first : expr_others(first.val, first.rest))

call_m(method, x) ==
    CASE method = "parens" -> parens(x)
      [] method = "atom" -> atom(x)
      [] method = "imul" -> imul(x)
      [] method = "unary" -> unary(x)
      [] method = "exp" -> exp(x)
      [] method = "facterm" -> facterm(x)
      [] method = "fac" -> fac(x)
      [] method = "expr" -> expr(x)
      [] method = "simplify1" -> simplify1(x)

\* input: optional whitespace, expr, optional whitespace, '?'
input(i) ==
    Bind(call_m("expr", opt_multispace(i)), LAMBDA res :
    Bind(char("?", opt_multispace(res.rest)), LAMBDA q :
         PDone(q.rest, res.val)))

\* the match of run on the result of the parser: an Error node becomes the
\* CalculatorError of the same name, a failure of the parser SyntaxError; the
\* rest of the input is not looked at
run_match(r) ==
    IF r.st = "Panic" THEN Panic
    ELSE IF r.st = "Done" THEN
        (IF r.val.kind = "Error" THEN Err(r.val.err) ELSE Ok(r.val))
    ELSE Err("SyntaxError")

\* Calculator::run: the terminator is appended and the parser is run
run(text) == run_match(input(Append(text, "?")))

calculate(text) == run(text)

\* the pieces of text the inputs are made of
Alphabet == {"1", "2", "+", "-", "*", "/", "^", "(", ")", " ", "?", ".", ",", "e", "m", "sin"}

\* the texts of n pieces
TextsOfLen(n) == [1 .. n -> Alphabet]

DoCalculate ==
    /\ op = "init"
    /\ \E n \in 0 .. MaxLen : \E text \in TextsOfLen(n) :
          /\ op' = "calculate"
          /\ args' = <<text>>
          /\ out' = calculate(text)
    /\ UNCHANGED overflow_checks

NextCalculate == DoCalculate

SpecCalculate == Init /\ [][NextCalculate]_vars

(***************************************************************************)
(* The conversions from a float to a Value as a state machine              *)
(***************************************************************************)
\* the floats the conversions are applied to: NaN, the infinities, a float
\* that is no fraction, and the fractions over the powers of two up to 16
\* and over 3 and 5, on both sides of the i32 range
FloatSamples ==
    {NaN, Inf(1), Inf(-1), Irr(1)}
        \cup {Fin(n, d) : n \in -(2 * MAX_POS + 2) .. (2 * MAX_POS + 2),
                          d \in {1, 2, 4, 8, 16, 3, 5}}

DoFromInput ==
    /\ op = "init"
    /\ \E f \in FloatSamples :
          /\ op' = "Value::from_input"
          /\ args' = <<f>>
          /\ out' = Value_from_input(f)
    /\ UNCHANGED overflow_checks

DoFromFloat ==
    /\ op = "init"
    /\ \E f \in FloatSamples :
          /\ op' = "Value::from_float"
          /\ args' = <<f>>
          /\ out' = from_float(f)
    /\ UNCHANGED overflow_checks

DoFromInexact ==
    /\ op = "init"
    /\ \E f \in FloatSamples :
          /\ op' = "Value::from_inexact"
          /\ args' = <<f>>
          /\ out' = from_inexact(f)
    /\ UNCHANGED overflow_checks

NextConvert == DoFromInput \/ DoFromFloat \/ DoFromInexact

SpecConvert == Init /\ [][NextConvert]_vars

(***************************************************************************)
(* The grammar as a state machine: a production is applied to a short      *)
(* text, and calculate to the text of an expression built of operands,     *)
(* operators, signs and function calls                                     *)
(***************************************************************************)
\* the productions that return an Expression
Productions == {"atom", "imul", "exp", "unary", "fac", "expr"}

\* the pieces of the texts the productions are applied to
ProductionAlphabet == {"1", "m", "-", "*", "/", "^", "(", ")", " "}

DoProduction ==
    /\ op = "init"
    /\ \E p \in Productions : \E n \in 0 .. MaxLen :
       \E text \in [1 .. n -> ProductionAlphabet] :
          /\ op' = "production"
          /\ args' = <<p, text>>
          /\ out' = call_m(p, Append(text, "?"))
    /\ UNCHANGED overflow_checks

\* an operand: its text, the float the literal stands for (the UnitValue for
\* a unit), and whether it is written in parentheses
Literal(text, n, d, paren) == [text |-> text, lit |-> "number", f |-> Fin(n, d), paren |-> paren]
UnitName(text) == [text |-> text, lit |-> "unit", f |-> Fin(1, 1), paren |-> FALSE]

OperandTexts ==
    {Literal(<<"1">>, 1, 1, FALSE), Literal(<<"2">>, 2, 1, FALSE),
     Literal(<<".", "5">>, 1, 2, FALSE), Literal(<<"(", "2", ")">>, 2, 1, TRUE),
     UnitName(<<"m">>)}

\* what stands between two operands: '^', '*', '/', whitespace, nothing at
\* all (the operands are adjacent), '+', '-', and '-' after whitespace
Separator(text, kind) == [text |-> text, kind |-> kind]

Separators ==
    {Separator(<<"^">>, "Exp"), Separator(<<"*">>, "Mul"), Separator(<<"/">>, "Div"),
     Separator(<<" ">>, "Space"), Separator(<<>>, "Adjacent"),
     Separator(<<"+">>, "Add"), Separator(<<"-">>, "Sub"),
     Separator(<<" ", "-">>, "Sub")}

Signs == {<<>>, <<"-">>, <<"+">>}

\* an operand can follow another one with nothing in between only when it
\* is in parentheses: two numbers in a row are one number
CanFollow(s, u) == s.kind = "Adjacent" => u.paren

\* u1 s1 u2 s2 u3
ChainShapes ==
    {[form |-> "chain", u1 |-> a, s1 |-> s, u2 |-> b, s2 |-> t, u3 |-> c] :
        a \in OperandTexts, s \in Separators, b \in OperandTexts,
        t \in Separators, c \in OperandTexts}

\* g1 u1 s1 g2 u2, g1 and g2 signs or nothing
SignedShapes ==
    {[form |-> "signed", g1 |-> g, u1 |-> a, s1 |-> s, g2 |-> h, u2 |-> b] :
        g \in Signs, a \in OperandTexts, s \in Separators,
        h \in Signs, b \in OperandTexts}

\* the arguments of the calls: operands, a quotient by zero and a sum of a
\* number and a unit
CallFunctions == {<<"sin">>, <<"cos">>, <<"atan", "2">>}

ArgumentTexts ==
    {<<"0">>, <<"1">>, <<".", "5">>, <<"m">>, <<"1", "/", "0">>, <<"1", "+", "m">>,
     <<"0", "/", "0">>}

\* f(a) and f(a, b)
CallShapes ==
    {[form |-> "call", f |-> f, a |-> <<a>>] : f \in CallFunctions, a \in ArgumentTexts}
      \cup {[form |-> "call", f |-> f, a |-> <<a, b>>] :
               f \in CallFunctions, a \in ArgumentTexts, b \in ArgumentTexts}

WellFormed(shape) ==
    CASE shape.form = "chain" -> CanFollow(shape.s1, shape.u2) /\ CanFollow(shape.s2, shape.u3)
      [] shape.form = "signed" -> CanFollow(shape.s1, shape.u2) \/ shape.g2 # <<>>
      [] shape.form = "call" -> TRUE

\* the text of an expression
TextOf(shape) ==
    CASE shape.form = "chain" ->
            shape.u1.text \o shape.s1.text \o shape.u2.text \o shape.s2.text \o shape.u3.text
      [] shape.form = "signed" ->
            shape.g1 \o shape.u1.text \o shape.s1.text \o shape.g2 \o shape.u2.text
      [] shape.form = "call" ->
            shape.f \o <<"(">> \o shape.a[1]
                \o (IF Len(shape.a) = 2 THEN <<",", " ">> \o shape.a[2] ELSE <<>>)
                \o <<")">>

DoCalculateExpression ==
    /\ op = "init"
    /\ \E shape \in ChainShapes \cup SignedShapes \cup CallShapes :
          /\ WellFormed(shape)
          /\ op' = "calculate"
          /\ args' = <<TextOf(shape), shape>>
          /\ out' = calculate(TextOf(shape))
    /\ UNCHANGED overflow_checks

NextGrammar == DoProduction \/ DoCalculateExpression

SpecGrammar == Init /\ [][NextGrammar]_vars

(***************************************************************************)
(* Every site that constructs a Value: the operations of the value layer,  *)
(* the conversions, and calculate on the text of an expression             *)
(***************************************************************************)
NextValueSites == NextValue \/ NextConvert \/ DoCalculateExpression

SpecValueSites == Init /\ [][NextValueSites]_vars

(***************************************************************************)
(* Properties of the rational kernel                                       *)
(***************************************************************************)
RationalOps == {"new", "from_integer", "recip", "pow", "mul", "div", "add", "sub", "neg"}

\* C1: every Rational returned as Ok by an operation of the kernel, applied
\* to operands that satisfy the invariant, satisfies the invariant itself:
\* lowest terms, 1 <= den <= MAX_POS, num # MIN_NEG.
C1_OkResultsAreValid ==
    (op \in RationalOps /\ IsOk(out)) => ValidRational(out.val)

\* the lowest-terms form of n / d is inside the range of the type
Representable(n, d) ==
    LET g == MathGCD(Abs(n), Abs(d))
    IN  Abs(n) \div g <= MAX_POS /\ Abs(d) \div g <= MAX_POS

\* C2: for every num and every den # 0, new(num, den) is the valid Rational
\* denoting num / den whenever that fraction is representable, and is
\* OverflowError otherwise.
C2_NewIsTheReducedQuotient ==
    op = "new" =>
        IF Representable(args[1], args[2])
        THEN IsOk(out) /\ ValidRational(out.val) /\ DenotesQuot(out.val, args[1], args[2])
        ELSE IsErr(out, "OverflowError")

\* the second operand as add sees it (sub negates it first)
Addend == IF op = "sub" THEN Rational_neg(args[2]) ELSE args[2]

\* the denominator and the two numerator products that add computes
AddLcm == (args[1].den * Addend.den) \div MathGCD(args[1].den, Addend.den)
AddP1 == args[1].num * (AddLcm \div args[1].den)
AddP2 == Addend.num * (AddLcm \div Addend.den)

\* C3: add and sub never wrap around: the outcome is the Rational equal to
\* the mathematical sum, or OverflowError; it is OverflowError whenever a
\* numerator product or their sum leaves the signed range.
C3_AddNeverWraps ==
    op \in {"add", "sub"} =>
        /\ out.tag \in {"Ok", "Err"}
        /\ IsOk(out) => DenotesQuot(out.val, AddP1 + AddP2, AddLcm)
        /\ (AddP1 \notin I32 \/ AddP2 \notin I32 \/ (AddP1 + AddP2) \notin I32)
               => IsErr(out, "OverflowError")

\* C4: mul returns the valid Rational equal to the product whenever the
\* reduced product is representable, and OverflowError only otherwise.
C4_MulIsTheReducedProduct ==
    op = "mul" =>
        LET n == args[1].num * args[2].num
            d == args[1].den * args[2].den
        IN  IF Representable(n, d)
            THEN IsOk(out) /\ ValidRational(out.val) /\ DenotesQuot(out.val, n, d)
            ELSE IsErr(out, "OverflowError")

(***************************************************************************)
(* Properties of the value layer                                           *)
(***************************************************************************)
ExactZero == Exact(Rat(0, 1))

\* C5: dividing an Exact value by an exact zero yields DivideByZeroError.
C5_DivByExactZeroIsDivideByZero ==
    (op = "Value::div" /\ args[1].tag = "Exact" /\ args[2] = ExactZero)
        => IsErr(out, "DivideByZeroError")

(***************************************************************************)
(* Properties of the unit layer                                            *)
(***************************************************************************)
\* the Value operation underneath the UnitValue operation of the state
ScalarResult ==
    CASE op = "UnitValue::add" -> Value_add(args[1].value, args[2].value)
      [] op = "UnitValue::sub" -> Value_sub(args[1].value, args[2].value)
      [] op = "UnitValue::mul" -> Value_mul(args[1].value, args[2].value)
      [] op = "UnitValue::div" -> Value_div(args[1].value, args[2].value)
      [] op = "UnitValue::pow" -> Value_pow(args[1].value, args[2].value)

\* C7 as stated: add and sub succeed if and only if the units are equal,
\* fail with UnitError when they differ, and keep the unit of the left
\* operand.
C7_AddSucceedsIffUnitsEqual ==
    op \in {"UnitValue::add", "UnitValue::sub"} =>
        /\ IsOk(out) <=> (args[1].unit = args[2].unit)
        /\ (args[1].unit # args[2].unit) => IsErr(out, "UnitError")
        /\ IsOk(out) => out.val.unit = args[1].unit

\* C7 amended: add and sub fail with UnitError exactly when the units
\* differ; with equal units the outcome is that of the Value operation on
\* the two scalars (which can fail, as inf + -inf does), and a successful
\* result carries the unit of the left operand.
C7_AddRequiresEqualUnits ==
    op \in {"UnitValue::add", "UnitValue::sub"} =>
        /\ IsErr(out, "UnitError") <=> (args[1].unit # args[2].unit)
        /\ IsOk(out) <=> (args[1].unit = args[2].unit /\ IsOk(ScalarResult))
        /\ IsOk(out) => (out.val.unit = args[1].unit /\ out.val.value = ScalarResult.val)
        /\ (args[1].unit = args[2].unit /\ ~IsOk(ScalarResult)) => out = ScalarResult

\* two values of one non-zero unit were added
C7_Witness ==
    /\ op = "UnitValue::add"
    /\ args[1].unit # Unit_zero
    /\ args[1].unit = args[2].unit
    /\ IsOk(out)
    /\ out.val.unit = args[1].unit

\* the component-wise sum (mul) or difference (div) of the operands' units
UnitCombination ==
    [i \in Dims |-> IF op = "UnitValue::mul" THEN args[1].unit[i] + args[2].unit[i]
                    ELSE args[1].unit[i] - args[2].unit[i]]

UnitOverflows == \E i \in Dims : UnitCombination[i] \notin UnitExps

\* C8 as stated: a successful mul (div) has the sum (difference) of the
\* units, and an exponent overflow gives UnitError.
C8_MulAddsUnits ==
    op \in {"UnitValue::mul", "UnitValue::div"} =>
        /\ IsOk(out) => out.val.unit = UnitCombination
        /\ UnitOverflows => IsErr(out, "UnitError")

\* C8 amended: a successful mul (div) has the sum (difference) of the
\* units with every exponent in range; when an exponent overflows the
\* result is an error, never a wrapped exponent: UnitError if the Value
\* operation succeeded, the error of the Value operation otherwise.
C8_MulAddsUnitsOrFails ==
    op \in {"UnitValue::mul", "UnitValue::div"} =>
        /\ IsOk(out) => (out.val.unit = UnitCombination /\ ~UnitOverflows)
        /\ UnitOverflows => ~IsOk(out)
        /\ (UnitOverflows /\ IsOk(ScalarResult)) => IsErr(out, "UnitError")
        /\ ~IsOk(ScalarResult) => out = ScalarResult

\* a division changed the unit
C8_Witness ==
    /\ op = "UnitValue::div"
    /\ IsOk(out)
    /\ args[2].unit # Unit_zero
    /\ out.val.unit # args[1].unit
    /\ out.val.unit # Unit_zero

\* the exponent of the state is an Exact integer
ExponentIsExactInteger == args[2].value.tag = "Exact" /\ args[2].value.val.den = 1

\* the unit of the base scaled by the integer exponent
ScaledUnit == [i \in Dims |-> args[1].unit[i] * args[2].value.val.num]

\* C9 as stated: an exponent with a unit gives UnitError; a dimensionless
\* base gives Value pow with the zero unit; a unit-bearing base succeeds only
\* for an Exact integer exponent, which scales the unit, and gives UnitError
\* for every other exponent.
C9_PowUnitRule ==
    op = "UnitValue::pow" =>
        /\ args[2].unit # Unit_zero => IsErr(out, "UnitError")
        /\ (args[2].unit = Unit_zero /\ args[1].unit = Unit_zero) =>
              IF IsOk(ScalarResult) THEN out = Ok(UV(ScalarResult.val, Unit_zero))
              ELSE out = ScalarResult
        /\ (args[2].unit = Unit_zero /\ args[1].unit # Unit_zero) =>
              /\ IsOk(out) => (ExponentIsExactInteger /\ out.val.unit = ScaledUnit)
              /\ ~ExponentIsExactInteger => IsErr(out, "UnitError")

\* C9 amended: as stated, except that for a unit-bearing base and an Exact
\* non-integer exponent the result is the error of Value pow when that
\* fails (DomainError for a negative base) and UnitError otherwise.
C9_PowUnitRuleValueFirst ==
    op = "UnitValue::pow" =>
        /\ args[2].unit # Unit_zero => IsErr(out, "UnitError")
        /\ (args[2].unit = Unit_zero /\ args[1].unit = Unit_zero) =>
              IF IsOk(ScalarResult) THEN out = Ok(UV(ScalarResult.val, Unit_zero))
              ELSE out = ScalarResult
        /\ (args[2].unit = Unit_zero /\ args[1].unit # Unit_zero) =>
              /\ IsOk(out) => (ExponentIsExactInteger /\ out.val.unit = ScaledUnit)
              /\ args[2].value.tag = "Inexact" => IsErr(out, "UnitError")
              /\ (args[2].value.tag = "Exact" /\ ~ExponentIsExactInteger) =>
                    IF IsOk(ScalarResult) THEN IsErr(out, "UnitError")
                    ELSE out = ScalarResult

\* a unit-bearing base was raised to an integer and its unit scaled
C9_Witness ==
    /\ op = "UnitValue::pow"
    /\ args[1].unit # Unit_zero
    /\ IsOk(out)
    /\ out.val.unit # args[1].unit
    /\ out.val.unit # Unit_zero

(***************************************************************************)
(* Properties of the folder                                                *)
(***************************************************************************)
\* C10: folding a binary node with an Error operand gives that Error: the
\* right operand's when it is an Error (also when both are), the left
\* operand's otherwise; Neg of an Error folds to that Error.
C10_ErrorAbsorption ==
    op = "simplify1" =>
        /\ (args[1].kind \in BinaryKinds /\ is_error(args[1].rhs)) => out = args[1].rhs
        /\ (args[1].kind \in BinaryKinds /\ is_error(args[1].lhs) /\ ~is_error(args[1].rhs))
              => out = args[1].lhs
        /\ (args[1].kind = "Neg" /\ is_error(args[1].arg)) => out = args[1].arg

\* a node with two different Errors was folded to the right one
C10_Witness ==
    /\ op = "simplify1"
    /\ args[1].kind \in BinaryKinds
    /\ is_error(args[1].lhs) /\ is_error(args[1].rhs)
    /\ args[1].lhs # args[1].rhs
    /\ out = args[1].rhs

(***************************************************************************)
(* Properties of the entry point                                           *)
(***************************************************************************)
\* the text is consumed in full as `ws? expr ws?`: it does not contain the
\* terminator, and the parser ends on the terminator that run appended
ConsumedInFull(text) ==
    /\ \A i \in 1 .. Len(text) : text[i] # "?"
    /\ input(Append(text, "?")).st = "Done"
    /\ input(Append(text, "?")).rest = <<>>

\* C6: calculate returns SyntaxError for every text that is not consumed in
\* full, and never Ok with the value of a prefix.
C6_UnconsumedInputIsSyntaxError ==
    (op = "calculate" /\ ~ConsumedInFull(args[1])) => IsErr(out, "SyntaxError")

(***************************************************************************)
(* Properties of the grammar                                               *)
(***************************************************************************)
\* what the parser returns for the text of the state
ParseOf == input(Append(args[1], "?"))

\* C11: every expression a production returns is a Value or an Error, never
\* a residual node; calculate returns Ok only with a Value, and an Error(k)
\* the parser returns is Err of the CalculatorError of the same name.
C11_FoldedNodesAreLeaves ==
    /\ (op = "production" /\ IsDone(out)) => out.val.kind \in {"Value", "Error"}
    /\ (op = "calculate" /\ out.tag \in {"Ok", "Err"}) =>
          LET p == ParseOf
          IN  IF IsOk(out) THEN out.val.kind = "Value" /\ IsDone(p) /\ p.val = out.val
              ELSE IF out.err = "SyntaxError" THEN ~IsDone(p)
              ELSE out.err \in ErrorKinds /\ IsDone(p) /\ p.val = EError(out.err)

\* a negated sum of a number and a unit was folded to the Error of the sum
C11_Witness ==
    /\ op = "calculate"
    /\ Len(args) = 2
    /\ args[2].form = "signed"
    /\ args[2].g1 = <<"-">>
    /\ out = Err("UnitError")

CalculatorErrors == ErrorKinds \cup {"SyntaxError"}

\* C12: calculate is total: for every text it returns Ok of a value or Err
\* of one of the five CalculatorErrors, and no text makes it abort.
C12_CalculateIsTotal ==
    op = "calculate" =>
        \/ IsOk(out)
        \/ out.tag = "Err" /\ out.err \in CalculatorErrors

(***************************************************************************)
(* The meaning of an expression by the table of precedence: adjacency      *)
(* binds tightest, then '^' (to the right), then a sign, then '*', '/' and *)
(* whitespace (to the left), then '+' and '-' (to the left)                *)
(***************************************************************************)
\* the Expression an operand stands for
OperandValue(u) ==
    IF u.lit = "unit" THEN EValue(get_unit(Concat(u.text)).val) ELSE input_value(u.f)

\* the folded node of kind k over two folded operands; nothing is returned
\* when the evaluation of an operand or of the node aborted
Folded(k, l, r) ==
    IF l.kind = "Panic" \/ r.kind = "Panic" THEN EPanic ELSE simplify1(EBin(k, l, r))

\* the operand under the sign g
Negated(g, e) ==
    IF g # <<"-">> \/ e.kind = "Panic" THEN e ELSE simplify1(ENeg(e))

\* what calculate returns for a text that stands for the folded node e
ResultOf(e) ==
    IF e.kind = "Panic" THEN Panic
    ELSE IF is_error(e) THEN Err(e.err)
    ELSE Ok(e)

NodeKind(s) == IF s.kind \in {"Space", "Adjacent"} THEN "Mul" ELSE s.kind

Level(s) ==
    CASE s.kind = "Adjacent" -> 4
      [] s.kind = "Exp" -> 3
      [] s.kind \in {"Mul", "Div", "Space"} -> 2
      [] s.kind \in {"Add", "Sub"} -> 1

\* (u1 s1 u2) s2 u3
LeftGrouped(shape) ==
    Folded(NodeKind(shape.s2),
           Folded(NodeKind(shape.s1), OperandValue(shape.u1), OperandValue(shape.u2)),
           OperandValue(shape.u3))

\* u1 s1 (u2 s2 u3)
RightGrouped(shape) ==
    Folded(NodeKind(shape.s1),
           OperandValue(shape.u1),
           Folded(NodeKind(shape.s2), OperandValue(shape.u2), OperandValue(shape.u3)))

\* a chain of three operands: the operator of the higher level is applied
\* first, and of two operators of one level the left one, except for '^'
ChainMeaning(shape) ==
    IF \/ Level(shape.s1) > Level(shape.s2)
       \/ Level(shape.s1) = Level(shape.s2) /\ shape.s1.kind # "Exp"
    THEN LeftGrouped(shape)
    ELSE RightGrouped(shape)

\* a pair of operands with signs: a sign after whitespace or after an
\* adjacent operand is the operator of a sum; the first sign applies to the
\* whole power or adjacency and to the first operand of any other node
SignedMeaning(shape) ==
    IF shape.g2 # <<>> /\ shape.s1.kind \in {"Space", "Adjacent"}
    THEN Folded(IF shape.g2 = <<"-">> THEN "Sub" ELSE "Add",
                Negated(shape.g1, OperandValue(shape.u1)), OperandValue(shape.u2))
    ELSE IF shape.s1.kind \in {"Exp", "Adjacent"}
    THEN Negated(shape.g1, Folded(NodeKind(shape.s1), OperandValue(shape.u1),
                                  Negated(shape.g2, OperandValue(shape.u2))))
    ELSE Folded(NodeKind(shape.s1), Negated(shape.g1, OperandValue(shape.u1)),
                Negated(shape.g2, OperandValue(shape.u2)))

IsShape(form) == op = "calculate" /\ Len(args) = 2 /\ args[2].form = form

\* C13: exponentiation groups to the right and sits between adjacency and
\* the sign: a^b^c is a^(b^c), adjacent operands are multiplied before the
\* power is taken, a leading minus applies to the whole power, and a sign is
\* accepted directly after '^'.
C13_ExpRightAssociative ==
    /\ (IsShape("chain") /\ "Exp" \in {args[2].s1.kind, args[2].s2.kind})
          => out = ResultOf(ChainMeaning(args[2]))
    /\ (IsShape("chain") /\ args[2].s1.kind = "Exp" /\ args[2].s2.kind = "Exp")
          => out = ResultOf(RightGrouped(args[2]))
    /\ (IsShape("signed") /\ args[2].s1.kind = "Exp")
          => out = ResultOf(Negated(args[2].g1,
                                    Folded("Exp", OperandValue(args[2].u1),
                                           Negated(args[2].g2, OperandValue(args[2].u2)))))

\* a power of a power whose two groupings differ was evaluated
C13_Witness ==
    /\ IsShape("chain")
    /\ args[2].s1.kind = "Exp" /\ args[2].s2.kind = "Exp"
    /\ IsOk(out)
    /\ ResultOf(LeftGrouped(args[2])) # out

\* C14: adjacent operands are multiplied before '*' and '/' are applied,
\* whitespace between two operands multiplies at the level of '*' and '/',
\* and whitespace followed by a sign does not multiply: the sign is then the
\* operator of a sum.
C14_AdjacencyBindsTighter ==
    /\ (IsShape("chain") /\ {args[2].s1.kind, args[2].s2.kind} \cap {"Adjacent", "Space"} # {})
          => out = ResultOf(ChainMeaning(args[2]))
    /\ (IsShape("chain") /\ args[2].s1.kind \in {"Mul", "Div"} /\ args[2].s2.kind = "Adjacent")
          => out = ResultOf(RightGrouped(args[2]))
    /\ (IsShape("chain") /\ args[2].s1.kind \in {"Mul", "Div"} /\ args[2].s2.kind = "Space")
          => out = ResultOf(LeftGrouped(args[2]))
    /\ (IsShape("signed") /\ args[2].s1.kind \in {"Adjacent", "Space"})
          => out = ResultOf(SignedMeaning(args[2]))
    /\ (IsShape("signed") /\ args[2].s1.kind = "Space" /\ args[2].g2 = <<"-">>)
          => out = ResultOf(Folded("Sub", Negated(args[2].g1, OperandValue(args[2].u1)),
                                   OperandValue(args[2].u2)))

\* a quotient by two adjacent operands whose two groupings differ
C14_Witness ==
    /\ IsShape("chain")
    /\ args[2].s1.kind = "Div" /\ args[2].s2.kind = "Adjacent"
    /\ IsOk(out)
    /\ out = ResultOf(RightGrouped(args[2]))
    /\ ResultOf(LeftGrouped(args[2])) # out

FactorLevel == {"Mul", "Div", "Space"}
SumLevel == {"Add", "Sub"}

\* C15: operators of one level are applied from left to right, and the
\* operators of the factor level ('*', '/', whitespace) before those of the
\* sum level ('+', '-'); no operation is reordered.
C15_LeftToRightFolding ==
    /\ (IsShape("chain") /\ args[2].s1.kind \in FactorLevel /\ args[2].s2.kind \in FactorLevel)
          => out = ResultOf(LeftGrouped(args[2]))
    /\ (IsShape("chain") /\ args[2].s1.kind \in SumLevel /\ args[2].s2.kind \in SumLevel)
          => out = ResultOf(LeftGrouped(args[2]))
    /\ (IsShape("chain") /\ args[2].s1.kind \in FactorLevel /\ args[2].s2.kind \in SumLevel)
          => out = ResultOf(LeftGrouped(args[2]))
    /\ (IsShape("chain") /\ args[2].s1.kind \in SumLevel /\ args[2].s2.kind \in FactorLevel)
          => out = ResultOf(RightGrouped(args[2]))

\* a quotient multiplied by a third operand, whose two groupings differ
C15_Witness ==
    /\ IsShape("chain")
    /\ args[2].s1.kind = "Div" /\ args[2].s2.kind = "Mul"
    /\ IsOk(out)
    /\ out = ResultOf(LeftGrouped(args[2]))
    /\ ResultOf(RightGrouped(args[2])) # out

(***************************************************************************)
(* Properties of the conversions                                           *)
(***************************************************************************)
\* the float f, a fraction, is a multiple of 1 / 8 that fits i32 when
\* multiplied by 8
OnInputGrid(f) ==
    /\ IsFin(f)
    /\ (InputScale * f.n) % f.d = 0
    /\ Abs(InputScale * f.n) <= MAX_POS * f.d

\* C16: a literal f is held as Exact, the Rational in lowest terms equal to
\* f, if and only if f * 8 is an integer of magnitude at most MAX_POS; every
\* other literal is held as Inexact(f).
C16_LiteralExactness ==
    (op = "Value::from_input" /\ ~is_nan(args[1])) =>
        IF OnInputGrid(args[1])
        THEN /\ IsOk(out) /\ out.val.tag = "Exact"
             /\ ValidRational(out.val.val)
             /\ DenotesQuot(out.val.val, args[1].n, args[1].d)
        ELSE out = Ok(Inexact(args[1]))

\* the literal 0.125 became 1 / 8
C16_Witness ==
    /\ op = "Value::from_input"
    /\ args[1] = Fin(1, 8)
    /\ out = Ok(Exact(Rat(1, 8)))

\* C17: from_float holds every float that is not NaN as Inexact, also a
\* multiple of 1 / 8 within the i32 range.
C17_FromFloatIsInexact ==
    (op = "Value::from_float" /\ ~is_nan(args[1])) => out = Ok(Inexact(args[1]))

(***************************************************************************)
(* Properties of the promotion from Exact to Inexact                       *)
(***************************************************************************)
ValueOps == {"Value::add", "Value::sub", "Value::mul", "Value::div", "Value::pow"}

BothExact == args[1].tag = "Exact" /\ args[2].tag = "Exact"

\* the Rational operation underneath the Value operation of the state, for
\* two Exact operands (an integer exponent in the case of pow)
RationalResult ==
    CASE op = "Value::add" -> Rational_add(args[1].val, args[2].val)
      [] op = "Value::sub" -> Rational_sub(args[1].val, args[2].val)
      [] op = "Value::mul" -> Rational_mul(args[1].val, args[2].val)
      [] op = "Value::div" -> Rational_div(args[1].val, args[2].val)
      [] op = "Value::pow" -> Rational_pow(args[1].val, args[2].val.num)

\* the float operation underneath the Value operation of the state
FloatResult ==
    CASE op = "Value::add" -> FAdd(as_float(args[1]), as_float(args[2]))
      [] op = "Value::sub" -> FSub(as_float(args[1]), as_float(args[2]))
      [] op = "Value::mul" -> FMul(as_float(args[1]), as_float(args[2]))
      [] op = "Value::div" -> FDiv(as_float(args[1]), as_float(args[2]))
      [] op = "Value::pow" -> FPowF(as_float(args[1]), as_float(args[2]))

\* C18: an operation with an Inexact operand never returns an Exact value,
\* also when an Inexact exponent holds an integer; with two Exact operands
\* the result is the Exact result of the Rational operation when that
\* succeeds, and the result of the float operation when it overflows.
C18_PromotionIsOneWay ==
    op \in ValueOps =>
        /\ (~BothExact /\ IsOk(out)) => out.val.tag = "Inexact"
        /\ (BothExact /\ (op = "Value::pow" => is_integer(args[2].val))) =>
              /\ IsOk(RationalResult) => out = Ok(Exact(RationalResult.val))
              /\ IsErr(RationalResult, "OverflowError") => out = from_inexact(FloatResult)

(***************************************************************************)
(* Properties of the construction sites                                    *)
(***************************************************************************)
Conversions == {"Value::from_float", "Value::from_inexact"}

HoldsNaN(v) == v.tag = "Inexact" /\ is_nan(v.val)

\* the Value operation of the state takes its result from the float
\* operation: an operand is Inexact (for pow: the base is Inexact or the
\* exponent holds no integer), or the Rational operation failed
UsesFloatResult ==
    IF op = "Value::pow"
    THEN \/ args[1].tag = "Inexact"
         \/ as_integer(args[2]).tag = "None"
         \/ Rational_pow(args[1].val, as_integer(args[2]).val).tag = "Err"
    ELSE ~BothExact \/ RationalResult.tag = "Err"

\* C19: no Value holds NaN: a conversion of NaN and an operation whose
\* float result is NaN return DomainError, and every value that a
\* conversion, an operation or calculate returns is Exact or an Inexact
\* other than NaN.
C19_NoValueHoldsNaN ==
    /\ op \in Conversions =>
          /\ is_nan(args[1]) => out = Err("DomainError")
          /\ IsOk(out) => ~HoldsNaN(out.val)
    /\ op \in ValueOps =>
          /\ IsOk(out) => ~HoldsNaN(out.val)
          /\ (UsesFloatResult /\ is_nan(FloatResult)) => out = Err("DomainError")
    /\ (op = "calculate" /\ IsOk(out) /\ out.val.kind = "Value")
          => ~HoldsNaN(out.val.uv.value)

\* the difference of two infinities of one sign was refused
C19_Witness ==
    /\ op = "Value::sub"
    /\ args[1] = Inexact(Inf(1)) /\ args[2] = Inexact(Inf(1))
    /\ out = Err("DomainError")

(***************************************************************************)
(* Properties of the folding of a call                                     *)
(***************************************************************************)
\* the function of the call applied to the bare scalars of its arguments
EvaluatedOnScalars(e) ==
    LET r == ApplyFunction(e.f, [i \in 1 .. Len(e.args) |-> extract_float(e.args[i])])
    IN  IF IsOk(r) THEN make_value_f64(r.val) ELSE EPanic

AllDimensionless(a) == \A i \in 1 .. Len(a) : is_known(a[i]) /\ unitless(a[i].uv)

\* C20: folding a call evaluates the function only when every argument is
\* a dimensionless Value; with an Error among the arguments the result is
\* the first Error from the left; a call whose arguments are all Values, one
\* of them with a unit, is not evaluated on the bare scalars.
C20_CallFoldsDimensionlessValues ==
    (op = "simplify1" /\ args[1].kind = "Call") =>
        /\ AllDimensionless(args[1].args) => out = EvaluatedOnScalars(args[1])
        /\ any_error(args[1].args) => out = first_error(args[1].args)
        /\ (all_known(args[1].args) /\ ~AllDimensionless(args[1].args))
              => out # EvaluatedOnScalars(args[1])

(***************************************************************************)
(* Properties of the ordering                                              *)
(***************************************************************************)
\* the order of the real numbers a and b denote, by the cross products
\* computed in the unbounded integers
RealOrder(a, b) == cmp_int(a.num * b.den, b.num * a.den)

\* the two products of cmp on the magnitudes are inside their types
ProductsFit(a, b) ==
    /\ Abs(a.num) * b.den \in I32
    /\ a.den * Abs(b.num) \in U32

\* C21: the ordering of Rationals is total and agrees with the order of the
\* real numbers: for every pair of valid Rationals cmp returns Less, Equal
\* or Greater as a.num * b.den is below, equal to or above b.num * a.den,
\* also when the cross products leave the machine range.
C21_CmpIsTotalRealOrder ==
    (op = "cmp") => out = Ok(RealOrder(args[1], args[2]))

(***************************************************************************)
(* Properties of the power                                                 *)
(***************************************************************************)
\* x held inside -Modulus .. Modulus: a magnitude of Modulus stands for
\* every integer outside the machine range
Saturated(x) == IF x > Modulus THEN Modulus ELSE IF x < -Modulus THEN -Modulus ELSE x

\* b to the power e (e >= 0) in the integers, saturated
RECURSIVE IntPow(_, _)
IntPow(b, e) == IF e = 0 THEN 1 ELSE Saturated(b * IntPow(b, e - 1))

\* a numerator and a denominator the type allows
InRange(n, d) == n > MIN_NEG /\ n <= MAX_POS /\ d >= 1 /\ d <= MAX_POS

\* num^e / den^e for e > 0, or OverflowError when a power leaves the range
PositivePower(r, e) ==
    IF InRange(IntPow(r.num, e), IntPow(r.den, e))
    THEN Ok(Rat(IntPow(r.num, e), IntPow(r.den, e)))
    ELSE Err("OverflowError")

\* the reciprocal of a Result: of zero it is OverflowError
ReciprocalOf(p) ==
    IF ~IsOk(p) THEN p
    ELSE IF p.val.num = 0 THEN Err("OverflowError")
    ELSE Ok(Rat(Signum(p.val.num) * p.val.den, Abs(p.val.num)))

\* C22: pow(r, e) of a valid r is 1/1 for e = 0; num^e / den^e for e > 0,
\* or OverflowError exactly when one of the two powers leaves the allowed
\* range; the reciprocal of pow(r, -e) for MIN_NEG < e < 0, OverflowError
\* for r = 0; and for e = MIN_NEG it is 1/1 for r = 1/1 and r = -1/1 and
\* OverflowError for every other r.
C22_PowIsTheCheckedPower ==
    (op = "pow") =>
        LET r == args[1]
            e == args[2]
        IN  out = IF e = 0 THEN Ok(Rat(1, 1))
                  ELSE IF e > 0 THEN PositivePower(r, e)
                  ELSE IF e # MIN_NEG THEN ReciprocalOf(PositivePower(r, -e))
                  ELSE IF r \in {Rat(1, 1), Rat(-1, 1)} THEN Ok(Rat(1, 1))
                  ELSE Err("OverflowError")

\* a negative fraction raised to a negative odd power
C22_Witness ==
    /\ op = "pow"
    /\ args = <<Rat(-1, 2), -3>>
    /\ out = Ok(Rat(-8, 1))

(***************************************************************************)
(* Properties of the double negation                                       *)
(***************************************************************************)
\* an expression that is neither a Value nor an Error and that the folder
\* leaves as it is
Residual(e) == ~is_known(e) /\ ~is_error(e) /\ simplify1(e) = e

\* C23: double negation folds away: folding Neg(Neg(e)) from the inside
\* gives e again, for a Value (negated twice, the unit kept), for an Error
\* (absorbed twice) and for a residual e (by the rule Neg(Neg x) -> x).
C23_DoubleNegationFoldsAway ==
    (op = "negate_twice" /\ (is_known(args[1]) \/ is_error(args[1]) \/ Residual(args[1])))
        => out = args[1]

\* a Value that carries a unit, negated twice
C23_Witness ==
    /\ op = "negate_twice"
    /\ is_known(args[1])
    /\ ~unitless(args[1].uv)
    /\ args[1].uv.value = Exact(Rat(-MAX_POS, 1))
    /\ out = args[1]
====
